---- MODULE Spec2Model ----
(***************************************************************************)
(* Model of the sp2vc vegetation-survey utilities:                         *)
(*   src/sp2vc/prep_veg.py  bb2percent, aggregate_cover, arrange_veg,      *)
(*                          devide, align_sp, prep_sp2vec                  *)
(*   src/sp2vc/map_df.py    map_df                                         *)
(*                                                                         *)
(* Numbers are kept in tenths (87.5 is 875), which represents every value  *)
(* of the cover table and every sum of the model exactly.  A Python value  *)
(* is a record [t, s, v]: t is its type ("str", "float", "int", "nan" for  *)
(* float('nan'), "none" for None), s the characters of a str, v the value  *)
(* of an int, or the value in tenths of a float.                           *)
(***************************************************************************)
EXTENDS Integers, Sequences, FiniteSets, TLC

VARIABLES
  bbIn, bb, bbPass, bbOut,                          \* a call of bb2percent
  veg, veg0, bbScale, percent, aggCalls, aggOut,    \* calls of aggregate_cover
  aggPrev,
  pveg, hasAb, hasLy, path, prepOut, prepFile,      \* a call of prep_sp2vec
  df, fun, mapOut, mapCalls                         \* a call of map_df

bbVars   == <<bbIn, bb, bbPass, bbOut>>
aggVars  == <<veg, veg0, bbScale, percent, aggCalls, aggOut, aggPrev>>
prepVars == <<pveg, hasAb, hasLy, path, prepOut, prepFile>>
mapVars  == <<df, fun, mapOut, mapCalls>>
vars     == <<bbVars, aggVars, prepVars, mapVars>>

\* Longest list handed to bb2percent, and most rows of a table.
MaxLen == 2
\* Most calls of aggregate_cover on one table.
MaxCalls == 2
\* Most rows of a vegetation table handed to prep_sp2vec.
MaxRows == 3

----------------------------------------------------------------------------
(* Python values *)

PyStr(s)   == [t |-> "str",   s |-> s,    v |-> 0]
PyFlt(v) == [t |-> "float", s |-> << >>, v |-> v]
PyInt(v)   == [t |-> "int",   s |-> << >>, v |-> v]
NaN      == [t |-> "nan",   s |-> << >>, v |-> 0]
None     == [t |-> "none",  s |-> << >>, v |-> 0]

Ok(val)    == [kind |-> "ok", val |-> val]
Raise(exc) == [kind |-> exc,  val |-> << >>]

----------------------------------------------------------------------------
(* float(): the grammar [sign] digits [. digits] | [sign] . digits | nan,  *)
(* over the characters the model's codes are written with.                 *)

Digits == {"0", "1", "2", "3", "4", "5", "6", "7", "8", "9"}

DigitVal(c) ==
  CASE c = "0" -> 0 [] c = "1" -> 1 [] c = "2" -> 2 [] c = "3" -> 3
    [] c = "4" -> 4 [] c = "5" -> 5 [] c = "6" -> 6 [] c = "7" -> 7
    [] c = "8" -> 8 [] c = "9" -> 9

RECURSIVE IntVal(_)
IntVal(ds) ==
  IF ds = << >> THEN 0
  ELSE IntVal(SubSeq(ds, 1, Len(ds) - 1)) * 10 + DigitVal(ds[Len(ds)])

AllDigits(ds) == \A i \in 1..Len(ds) : ds[i] \in Digits

\* Position of the first "." of s, or Len(s) + 1.
DotPos(s) ==
  IF \E i \in 1..Len(s) : s[i] = "."
  THEN CHOOSE i \in 1..Len(s) : s[i] = "." /\ \A j \in 1..(i - 1) : s[j] # "."
  ELSE Len(s) + 1

\* float(s) for a str: the value in tenths, float('nan'), or ValueError.
ParseFloat(s) ==
  LET signed == Len(s) > 0 /\ s[1] \in {"+", "-"}
      body   == IF signed THEN Tail(s) ELSE s
      sign   == IF signed /\ s[1] = "-" THEN -1 ELSE 1
      dot    == DotPos(body)
      ip     == SubSeq(body, 1, dot - 1)
      fp     == SubSeq(body, dot + 1, Len(body))
  IN  IF body = <<"n", "a", "n">> THEN Ok(NaN)
      ELSE IF AllDigits(ip) /\ AllDigits(fp) /\ Len(ip) + Len(fp) >= 1
           THEN Ok(PyFlt(sign * (IntVal(ip) * 10
                                  + (IF fp = << >> THEN 0 ELSE DigitVal(fp[1])))))
           ELSE Raise("ValueError")

\* float(b) for any value.  (PyFloatCoerce: an unparseable str becomes NaN.)
PyFloatCoerce(b) ==
  CASE b.t = "str"   -> IF ParseFloat(b.s).kind = "ok" THEN ParseFloat(b.s) ELSE Ok(NaN)
    [] b.t = "float" -> Ok(b)
    [] b.t = "int"   -> Ok(PyFlt(b.v * 10))
    [] b.t = "nan"   -> Ok(NaN)
    [] b.t = "none"  -> Raise("TypeError")

PyFloat(b) ==
  CASE b.t = "str"   -> ParseFloat(b.s)
    [] b.t = "float" -> Ok(b)
    [] b.t = "int"   -> Ok(PyFlt(b.v * 10))
    [] b.t = "nan"   -> Ok(NaN)
    [] b.t = "none"  -> Raise("TypeError")

\* b == "key" in Python: only a str equals a str, character by character.
\* (PyEqInt: the comparison written with the number, b == 5.  PyEqNumeric:
\* the comparison made on the values, float(b) == float("5").)
PyEqInt(b, key) == b.t = "int" /\ ParseFloat(key) = Ok(PyFlt(b.v * 10))

PyEqNumeric(b, key) ==
  b.t = "str" /\ ParseFloat(b.s).kind = "ok" /\ ParseFloat(b.s) = ParseFloat(key)

PyEq(b, key) == b.t = "str" /\ b.s = key

----------------------------------------------------------------------------
(* bb2percent: seven list comprehensions, each over the whole list *)

\* The symbol and the value (in tenths) of comprehension k, lines 111-117.
PassKey(k) ==
  CASE k = 1 -> <<"5">> [] k = 2 -> <<"4">> [] k = 3 -> <<"3">> [] k = 4 -> <<"2">>
    [] k = 5 -> <<"1">> [] k = 6 -> <<"+">> [] k = 7 -> <<"r">>

PassVal(k) ==
  CASE k = 1 -> 875 [] k = 2 -> 625 [] k = 3 -> 375 [] k = 4 -> 175
    [] k = 5 -> 65  [] k = 6 -> 5   [] k = 7 -> 1

\* bb = [val if b == key else b for b in bb], comprehensions 1 to 6.
Rewrite(list, k) ==
  [i \in 1..Len(list) |-> IF PyEq(list[i], PassKey(k)) THEN PyFlt(PassVal(k)) ELSE list[i]]

\* bb = [0.1 if b == "r" else float(b) for b in bb]: the first element whose
\* float() raises ends the comprehension with that exception.
FinalElem(b) == IF PyEq(b, PassKey(7)) THEN Ok(PyFlt(PassVal(7))) ELSE PyFloat(b)

FinalPass(list) ==
  LET res == [i \in 1..Len(list) |-> FinalElem(list[i])]
      bad == {i \in 1..Len(list) : res[i].kind # "ok"}
  IN  IF bad = {} THEN Ok([i \in 1..Len(list) |-> res[i].val])
      ELSE Raise(res[CHOOSE i \in bad : \A j \in bad : i <= j].kind)

bb2percent(list) ==
  FinalPass(Rewrite(Rewrite(Rewrite(Rewrite(Rewrite(Rewrite(list, 1), 2), 3), 4), 5), 6))

----------------------------------------------------------------------------
(* Inputs *)

Reserved == {<<"5">>, <<"4">>, <<"3">>, <<"2">>, <<"1">>, <<"+">>, <<"r">>}

NumericStrs == {<<"1", "2", ".", "5">>, <<"1", "5", "0">>, <<"0">>,
                <<"1", ".", "0">>, <<"-", "3">>, <<"8", "7", ".", "5">>}

InvalidStrs == {<<"a", "b", "c">>, << >>, <<"5", "x">>, <<"1", ".", "2", ".", "3">>}

BBValues == {PyStr(s) : s \in Reserved \cup NumericStrs \cup InvalidStrs}
              \cup {PyStr(<<"n", "a", "n">>), NaN, None}

SeqsUpTo(S, n) == UNION {[1..m -> S] : m \in 0..n}

----------------------------------------------------------------------------
(* A call of bb2percent, one comprehension per step *)

NoOut == [kind |-> "none", val |-> << >>]

BBStart ==
  /\ bbIn \in SeqsUpTo(BBValues, MaxLen)
  /\ bb = bbIn
  /\ bbPass = 0
  /\ bbOut = NoOut

BBRewrite ==
  /\ bbPass < 6
  /\ bb' = Rewrite(bb, bbPass + 1)
  /\ bbPass' = bbPass + 1
  /\ UNCHANGED <<bbIn, bbOut, aggVars, prepVars, mapVars>>

BBFinal ==
  /\ bbPass = 6
  /\ bbOut' = FinalPass(bb)
  /\ bb' = IF bbOut'.kind = "ok" THEN bbOut'.val ELSE bb
  /\ bbPass' = 7
  /\ UNCHANGED <<bbIn, aggVars, prepVars, mapVars>>

BBIdle ==
  /\ bbIn = << >>
  /\ bb = << >>
  /\ bbPass = 7
  /\ bbOut = NoOut

NextBB == BBRewrite \/ BBFinal

----------------------------------------------------------------------------
(* aggregate_cover(veg, bb_scale, percent).  A table is a function from    *)
(* column name to column; NoneKey is the column label None.                *)

NoneKey == "<None>"

IsNa(x) == x.t \in {"nan", "none"}

Rows(tbl) == IF DOMAIN tbl = {} THEN 0 ELSE Len(tbl[CHOOSE c \in DOMAIN tbl : TRUE])

\* veg[name] = column: the column is added, or replaced when it exists.
SetCol(tbl, name, col) == [c \in DOMAIN tbl \cup {name} |-> IF c = name THEN col ELSE tbl[c]]

\* if percent is None: veg[percent] = np.nan
AddNanColumn(tbl, pc) ==
  IF pc = NoneKey THEN SetCol(tbl, NoneKey, [i \in 1..Rows(tbl) |-> NaN]) ELSE tbl

\* veg[bb_scale][~veg[percent].isna()] = 0.  The chained assignment is taken
\* as written through to veg, as pandas does without copy-on-write.
MaskCodes(tbl, bbs, pc) ==
  [tbl EXCEPT ![bbs] = [i \in 1..Len(@) |-> IF ~IsNa(tbl[pc][i]) THEN PyInt(0) ELSE @[i]]]

\* veg.fillna({'bb_scale': 0, 'percent': 0}): a new table; a key that is no
\* column of the table fills nothing.
FillNa(tbl) ==
  [c \in DOMAIN tbl |->
     IF c \in {"bb_scale", "percent"}
     THEN [i \in 1..Len(tbl[c]) |-> IF IsNa(tbl[c][i]) THEN PyInt(0) ELSE tbl[c][i]]
     ELSE tbl[c]]

\* veg['percent'].astype(float)
AsTypeFloat(col) == [i \in 1..Len(col) |-> PyFloat(col[i]).val]

\* a + b on floats: NaN when either is NaN.
Add(a, b) == IF a.t = "nan" \/ b.t = "nan" THEN NaN ELSE PyFlt(a.v + b.v)

\* veg['cover'] = veg['bb_scale'] + veg['percent'].  The source breaks off
\* inside this line; the sum is the one its docstring (lines 136-138) and
\* step 5 of the specification state.
Cover(tbl) == [i \in 1..Rows(tbl) |-> Add(tbl["bb_scale"][i], tbl["percent"][i])]

\* The caller's table after the call (lines 141-143 write to it; line 144
\* rebinds veg to a new table).
CallerTable(tbl, bbs, pc) == MaskCodes(AddNanColumn(tbl, pc), bbs, pc)

\* What the call produces: the cover column, or the exception it raises.
aggregate_cover(tbl, bbs, pc) ==
  LET filled == FillNa(CallerTable(tbl, bbs, pc))
      values == bb2percent(filled[bbs])
      stored == SetCol(filled, "bb_scale", values.val)
  IN  IF values.kind # "ok" THEN Raise(values.kind)
      ELSE IF "percent" \notin DOMAIN stored THEN Raise("KeyError")
      ELSE Ok(Cover([stored EXCEPT !["percent"] = AsTypeFloat(@)]))

CodeNames    == {"bb_scale", "bb"}
PercentNames == {"percent", "pc"}

AggCodes == {PyStr(<<"5">>), PyStr(<<"+">>), PyStr(<<"1", "2", ".", "5">>),
             PyStr(<<"1", "5", "0">>), PyStr(<<"a", "b", "c">>), NaN, None}

AggPercents == {NaN, PyFlt(0), PyFlt(200)}

AggStart ==
  /\ \E n \in 0..MaxLen, cn \in CodeNames :
       \E codes \in [1..n -> AggCodes] :
         /\ bbScale = cn
         /\ \/ \E pn \in PercentNames, pcs \in [1..n -> AggPercents] :
                  /\ veg = (cn :> codes) @@ (pn :> pcs)
                  /\ percent = pn
            \/ /\ veg = (cn :> codes)
               /\ percent = NoneKey
  /\ veg0 = veg
  /\ aggCalls = 0
  /\ aggOut = NoOut
  /\ aggPrev = NoOut

AggIdle ==
  /\ veg = ("bb_scale" :> << >>)
  /\ veg0 = veg
  /\ bbScale = "bb_scale"
  /\ percent = "percent"
  /\ aggCalls = MaxCalls
  /\ aggOut = NoOut
  /\ aggPrev = NoOut

AggregateCover ==
  /\ aggCalls < MaxCalls
  /\ veg' = CallerTable(veg, bbScale, percent)
  /\ aggOut' = aggregate_cover(veg, bbScale, percent)
  /\ aggPrev' = aggOut
  /\ aggCalls' = aggCalls + 1
  /\ UNCHANGED <<veg0, bbScale, percent, bbVars, prepVars, mapVars>>

NextAgg == AggregateCover

----------------------------------------------------------------------------
(* prep_sp2vec(veg, path).  A vegetation table is a sequence of rows       *)
(* [st, sp, ab, ly]; hasAb and hasLy say whether it has the columns 'ab'   *)
(* and 'ly' (the field of an absent column is not read).  Sites, layers    *)
(* and abundances are numbers standing for their rank in sort order.       *)

has_ab_ly(ab, ly) ==
  IF ab /\ ly THEN "has_both"
  ELSE IF ab /\ ~ly THEN "has_ab"
  ELSE IF ~ab /\ ly THEN "has_ly"
  ELSE "has_none"

\* Row a sorts strictly before row b under the sort_values call of the case:
\* by st, then ly ascending, then ab descending.  (BeforeAbAscending: ab
\* sorted ascending like the other columns.)
BeforeAbAscending(a, b, ab_ly) ==
  \/ a.st < b.st
  \/ a.st = b.st /\ ab_ly \in {"has_both", "has_ly"} /\ a.ly < b.ly
  \/ a.st = b.st /\ ab_ly = "has_both" /\ a.ly = b.ly /\ a.ab < b.ab
  \/ a.st = b.st /\ ab_ly = "has_ab" /\ a.ab < b.ab

Before(a, b, ab_ly) ==
  \/ a.st < b.st
  \/ a.st = b.st /\ ab_ly \in {"has_both", "has_ly"} /\ a.ly < b.ly
  \/ a.st = b.st /\ ab_ly = "has_both" /\ a.ly = b.ly /\ a.ab > b.ab
  \/ a.st = b.st /\ ab_ly = "has_ab" /\ a.ab > b.ab

\* Row r put into a sorted table, after the rows it does not sort before.
Insert(r, sorted, ab_ly) ==
  LET later == {i \in 1..Len(sorted) : Before(r, sorted[i], ab_ly)}
      at    == IF later = {} THEN Len(sorted) + 1
               ELSE CHOOSE i \in later : \A j \in later : i <= j
  IN  SubSeq(sorted, 1, at - 1) \o <<r>> \o SubSeq(sorted, at, Len(sorted))

\* sort_values on several columns: a stable sort.
RECURSIVE SortValues(_, _)
SortValues(rows, ab_ly) ==
  IF rows = << >> THEN << >>
  ELSE Insert(rows[Len(rows)], SortValues(SubSeq(rows, 1, Len(rows) - 1), ab_ly), ab_ly)

arrange_veg(rows, ab, ly) ==
  IF has_ab_ly(ab, ly) = "has_none" THEN rows ELSE SortValues(rows, has_ab_ly(ab, ly))

\* The group keys of groupby, ascending.
RECURSIVE SortedKeys(_)
SortedKeys(S) ==
  IF S = {} THEN << >>
  ELSE LET m == CHOOSE x \in S : \A y \in S : x <= y
       IN  <<m>> \o SortedKeys(S \ {m})

\* df.groupby(col): one group per value, its rows in the order of the table.
devide(rows) ==
  LET keys == SortedKeys({rows[i].st : i \in 1..Len(rows)})
  IN  [k \in 1..Len(keys) |->
         [site |-> keys[k], rows |-> SelectSeq(rows, LAMBDA r : r.st = keys[k])]]

\* ' '.join(names): the names with one " " between neighbours.
RECURSIVE Join(_)
Join(names) ==
  IF Len(names) = 0 THEN << >>
  ELSE IF Len(names) = 1 THEN <<names[1]>>
  ELSE <<names[1], " ">> \o Join(Tail(names))

align_sp(rows) == Join([i \in 1..Len(rows) |-> rows[i].sp])

prep_sp2vec(rows, ab, ly) ==
  LET divided_veg == devide(arrange_veg(rows, ab, ly))
  IN  [k \in 1..Len(divided_veg) |->
         [st |-> divided_veg[k].site, sp |-> align_sp(divided_veg[k].rows)]]

Sites    == {1, 2}
Species  == {"x", "y"}
Abunds   == {1, 2}
Layers   == {1, 2}

NoTable == <<[st |-> 0, sp |-> << >>]>>

PrepStart ==
  /\ hasAb \in BOOLEAN
  /\ hasLy \in BOOLEAN
  /\ \E n \in 0..MaxRows :
       pveg \in [1..n -> [st : Sites, sp : Species,
                          ab : IF hasAb THEN Abunds ELSE {0},
                          ly : IF hasLy THEN Layers ELSE {0}]]
  /\ path \in {"None", "sp.tsv"}
  /\ prepOut = NoTable
  /\ prepFile = NoTable

PrepIdle ==
  /\ hasAb = FALSE
  /\ hasLy = FALSE
  /\ pveg = << >>
  /\ path = "None"
  /\ prepOut = << >>
  /\ prepFile = NoTable

PrepSp2vec ==
  /\ prepOut = NoTable
  /\ prepOut' = prep_sp2vec(pveg, hasAb, hasLy)
  /\ prepFile' = IF path # "None" THEN prepOut' ELSE prepFile
  /\ UNCHANGED <<pveg, hasAb, hasLy, path, bbVars, aggVars, mapVars>>

NextPrep == PrepSp2vec

----------------------------------------------------------------------------
(* map_df(df, fun).  A table is its column names in order and its rows, a  *)
(* row being a function from column name to value; a function is its       *)
(* argument names in order and its body.                                   *)

ToSet(seq) == {seq[i] : i \in 1..Len(seq)}

\* fun(*args): the value returned, or the message of the exception raised.
Apply(f, args) ==
  IF Len(args) # Len(f.args) THEN Raise("wrong number of arguments")
  ELSE CASE f.body = "pair"    -> Ok(args[1] * 10 + args[2])
         [] f.body = "nonzero" -> IF args[1] = 0 THEN Raise("zero") ELSE Ok(args[1])
         [] f.body = "const"   -> Ok(7)

\* set(args) == set(df.columns).  (NamesMatchOrdered: the names compared as
\* lists.)
NamesMatchOrdered(args, cols) == args = cols
NamesMatch(args, cols) == ToSet(args) = ToSet(cols)

\* The arguments of the call for row i: the columns of df.values.T, in the
\* order of the table's columns.
RowArgs(d, i) == [k \in 1..Len(d.cols) |-> d.rows[i][d.cols[k]]]

\* A returned str, after calls calls of fun.
Message(m, calls) == [kind |-> "str", msg |-> m, list |-> << >>, calls |-> calls]

\* map_df: what it returns (a list or a str), and on how many rows it
\* called fun.
map_df(d, f) ==
  LET res == [i \in 1..Len(d.rows) |-> Apply(f, RowArgs(d, i))]
      bad == {i \in 1..Len(d.rows) : res[i].kind # "ok"}
      first == CHOOSE i \in bad : \A j \in bad : i <= j
  IN  IF ~NamesMatch(f.args, d.cols)
      THEN Message("NOT match col names and fun arguments!", 0)
      ELSE IF Len(d.cols) = 0
      THEN Message("map() must have at least two arguments.", 0)
      ELSE IF bad # {}
      THEN Message(res[first].kind, first)
      ELSE [kind |-> "list", msg |-> "", list |-> [i \in 1..Len(d.rows) |-> res[i].val],
            calls |-> Len(d.rows)]

ColumnLists == {<< >>, <<"x">>, <<"y">>, <<"x", "y">>, <<"y", "x">>}

Funs == {[args |-> <<"x", "y">>, body |-> "pair"],
         [args |-> <<"y", "x">>, body |-> "pair"],
         [args |-> <<"x", "y">>, body |-> "nonzero"],
         [args |-> <<"x">>, body |-> "nonzero"],
         [args |-> << >>, body |-> "const"]}

CellValues == {0, 1, 2}

NoMapOut == [kind |-> "none", msg |-> "", list |-> << >>]

MapStart ==
  /\ \E cols \in ColumnLists, n \in 0..MaxLen :
       \E rows \in [1..n -> [ToSet(cols) -> CellValues]] :
         df = [cols |-> cols, rows |-> rows]
  /\ fun \in Funs
  /\ mapOut = NoMapOut
  /\ mapCalls = 0

MapIdle ==
  /\ df = [cols |-> << >>, rows |-> << >>]
  /\ fun = [args |-> << >>, body |-> "const"]
  /\ mapOut = [kind |-> "str", msg |-> "", list |-> << >>]
  /\ mapCalls = 0

MapDf ==
  /\ mapOut = NoMapOut
  /\ mapOut' = [kind |-> map_df(df, fun).kind, msg |-> map_df(df, fun).msg,
                list |-> map_df(df, fun).list]
  /\ mapCalls' = map_df(df, fun).calls
  /\ UNCHANGED <<df, fun, bbVars, aggVars, prepVars>>

NextMap == MapDf

----------------------------------------------------------------------------
(* The cover table and the decimal values as the specification states them *)

TableValue(s) ==
  CASE s = <<"5">> -> 875 [] s = <<"4">> -> 625 [] s = <<"3">> -> 375
    [] s = <<"2">> -> 175 [] s = <<"1">> -> 65  [] s = <<"+">> -> 5
    [] s = <<"r">> -> 1

DecimalValue(s) ==
  CASE s = <<"1", "2", ".", "5">> -> 125 [] s = <<"1", "5", "0">> -> 1500
    [] s = <<"0">> -> 0 [] s = <<"1", ".", "0">> -> 10 [] s = <<"-", "3">> -> -30
    [] s = <<"8", "7", ".", "5">> -> 875

\* The per-element lookup L(c).
Lookup(s) == IF s \in Reserved THEN TableValue(s) ELSE DecimalValue(s)

IsCode(x, S) == x.t = "str" /\ x.s \in S

BBDone == bbPass = 7 /\ bbOut.kind # "none"

----------------------------------------------------------------------------
(* Claims about bb2percent *)

\* C1: when bb2percent returns, every index whose code is one of the seven
\* reserved symbols holds exactly the table value of that symbol, "5" giving
\* 87.5 and never 5.0.
C1_ReservedCodeGetsTableValue ==
  (BBDone /\ bbOut.kind = "ok") =>
    \A i \in 1..Len(bbIn) :
      IsCode(bbIn[i], Reserved) => bbOut.val[i] = PyFlt(TableValue(bbIn[i].s))

C1_Witness ==
  /\ BBDone /\ bbOut.kind = "ok" /\ Len(bbIn) = 2
  /\ bbIn[1] = PyStr(<<"5">>) /\ bbOut.val[1] = PyFlt(875)
  /\ bbIn[2] = PyStr(<<"r">>) /\ bbOut.val[2] = PyFlt(1)

\* C3: a list with an element that is neither a reserved symbol nor a number
\* makes bb2percent raise, with no result for any element; the exception is
\* ValueError unless a None earlier in the list raised TypeError first.  A
\* call of aggregate_cover raises likewise when such a code stands in a row
\* whose percent is null (a code in a row with a percent is replaced by 0
\* before the conversion).
C3_InvalidCodeFailsWholeBatch ==
  /\ BBDone =>
       \A i \in 1..Len(bbIn) :
         IsCode(bbIn[i], InvalidStrs) =>
           /\ bbOut.kind \in {"ValueError", "TypeError"}
           /\ bbOut.val = << >>
           /\ (\A j \in 1..(i - 1) : bbIn[j] # None) => bbOut.kind = "ValueError"
  /\ aggCalls >= 1 =>
       \A i \in 1..Len(veg0[bbScale]) :
         (/\ IsCode(veg0[bbScale][i], InvalidStrs)
          /\ (percent = NoneKey \/ IsNa(veg0[percent][i])))
         => (aggOut.kind \in {"ValueError", "TypeError"} /\ aggOut.val = << >>)

C3_Witness ==
  /\ BBDone /\ Len(bbIn) = 2
  /\ bbIn[1] = PyStr(<<"5">>) /\ bbIn[2] = PyStr(<<"a", "b", "c">>)
  /\ bbOut = Raise("ValueError")

\* C6 (as claimed): at every index whose code is null, bb2percent returns
\* 0.0 and does not fail.
C6_NullCodeGivesZero ==
  BBDone =>
    \A i \in 1..Len(bbIn) :
      IsNa(bbIn[i]) => (bbOut.kind = "ok" /\ bbOut.val[i] = PyFlt(0))

\* C10: on a list of reserved symbols and numeric strings, an element is at
\* every step either still the code it was or the value L(c) of its code (a
\* value once written is not rewritten), and the returned list is L(c) at
\* every index.
C10_PassesAgreeWithLookup ==
  (\A i \in 1..Len(bbIn) : IsCode(bbIn[i], Reserved \cup NumericStrs)) =>
    /\ Len(bb) = Len(bbIn)
    /\ \A i \in 1..Len(bbIn) :
         \/ bb[i] = PyFlt(Lookup(bbIn[i].s))
         \/ bbPass < 7 /\ bb[i] = bbIn[i]
    /\ BBDone => bbOut = Ok([i \in 1..Len(bbIn) |-> PyFlt(Lookup(bbIn[i].s))])

C10_Witness ==
  /\ BBDone /\ Len(bbIn) = 2
  /\ bbIn[1] = PyStr(<<"1">>) /\ bbIn[2] = PyStr(<<"1", "2", ".", "5">>)
  /\ bbOut = Ok(<<PyFlt(65), PyFlt(125)>>)

----------------------------------------------------------------------------
(* Claims about aggregate_cover, checked under SpecAgg *)

\* The codes and percents of the first call: the two columns the caller
\* names, the percents all null when percent is None.
Codes0 == veg0[bbScale]
Percents0 == IF percent = NoneKey THEN [i \in 1..Len(Codes0) |-> NaN] ELSE veg0[percent]

\* codeToPercent of one code, as the specification defines it.
CodeToPercent(c) ==
  IF IsNa(c) THEN PyFlt(0) ELSE PyFlt(Lookup(c.s))

FirstReturn == aggCalls = 1 /\ aggOut.kind = "ok"

\* C2 (as claimed): the result is the percent where the percent is not null
\* and codeToPercent of the code where it is null.
C2_PercentWinsElseCode ==
  FirstReturn =>
    \A i \in 1..Len(Codes0) :
      aggOut.val[i] = IF IsNa(Percents0[i]) THEN CodeToPercent(Codes0[i])
                      ELSE Percents0[i]

\* C4 (as claimed): after any call the caller's table holds the same values
\* as before the call.
C4_CallerTableUnchanged ==
  aggCalls >= 1 =>
    /\ veg[bbScale] = veg0[bbScale]
    /\ percent # NoneKey => veg[percent] = veg0[percent]

\* C7 (as claimed): a result for records whose percent is null or in [0,100]
\* and whose code is null, a reserved symbol or a numeric string has every
\* cover value in [0,100].
C7_CoverInRange ==
  (/\ FirstReturn
   /\ \A i \in 1..Len(Codes0) :
        /\ IsNa(Percents0[i]) \/ (Percents0[i].v >= 0 /\ Percents0[i].v <= 1000)
        /\ IsNa(Codes0[i]) \/ IsCode(Codes0[i], Reserved \cup NumericStrs))
  => \A i \in 1..Len(aggOut.val) :
       /\ aggOut.val[i].t = "float"
       /\ aggOut.val[i].v >= 0 /\ aggOut.val[i].v <= 1000

\* With the columns named bb_scale and percent and the percent column passed,
\* the result is the one C2 states.
LiteralNames == bbScale = "bb_scale" /\ percent = "percent"

AggLiteralNamesAgree ==
  (FirstReturn /\ LiteralNames) =>
    \A i \in 1..Len(Codes0) :
      aggOut.val[i] = IF IsNa(Percents0[i]) THEN CodeToPercent(Codes0[i])
                      ELSE Percents0[i]

\* The specification's example aggregateCover(["5", null], [null, 20.0]).
AggExample ==
  (/\ aggCalls = 1 /\ LiteralNames
   /\ veg0["bb_scale"] = <<PyStr(<<"5">>), NaN>>
   /\ veg0["percent"] = <<NaN, PyFlt(200)>>)
  => aggOut = Ok(<<PyFlt(875), PyFlt(200)>>)

----------------------------------------------------------------------------
(* Claim about prep_sp2vec, checked under SpecPrep *)

\* The rows of site s, by their position in the input table.
SiteRows(s) == {i \in 1..Len(pveg) : pveg[i].st = s}

\* The record at input position i may stand right before the one at j.
MayPrecede(i, j) ==
  IF hasAb /\ hasLy
  THEN pveg[i].ly < pveg[j].ly \/ (pveg[i].ly = pveg[j].ly /\ pveg[i].ab >= pveg[j].ab)
  ELSE IF hasAb THEN pveg[i].ab >= pveg[j].ab
  ELSE IF hasLy THEN pveg[i].ly <= pveg[j].ly
  ELSE i < j

\* C8: the result has exactly one row per distinct site of the input, and the
\* row's 'sp' is the names of all and only the site's records, one " "
\* between neighbours, ordered by layer ascending then abundance descending
\* (both columns), abundance descending (only 'ab'), layer ascending (only
\* 'ly'), or as in the input (neither).
C8_OneRowPerSiteInArrangedOrder ==
  prepOut # NoTable =>
    /\ {prepOut[k].st : k \in 1..Len(prepOut)} = {pveg[i].st : i \in 1..Len(pveg)}
    /\ \A k, l \in 1..Len(prepOut) : prepOut[k].st = prepOut[l].st => k = l
    /\ \A k \in 1..Len(prepOut) :
         LET I == SiteRows(prepOut[k].st)
             n == Cardinality(I)
         IN  \E idx \in [1..n -> I] :
               /\ \A a, b \in 1..n : idx[a] = idx[b] => a = b
               /\ \A a \in 1..(n - 1) : MayPrecede(idx[a], idx[a + 1])
               /\ Len(prepOut[k].sp) = 2 * n - 1
               /\ \A a \in 1..n : prepOut[k].sp[2 * a - 1] = pveg[idx[a]].sp
               /\ \A a \in 1..(n - 1) : prepOut[k].sp[2 * a] = " "

C8_Witness ==
  /\ hasAb /\ hasLy
  /\ pveg = <<[st |-> 2, sp |-> "x", ab |-> 1, ly |-> 1],
              [st |-> 1, sp |-> "x", ab |-> 1, ly |-> 2],
              [st |-> 2, sp |-> "y", ab |-> 2, ly |-> 1]>>
  /\ prepOut = <<[st |-> 1, sp |-> <<"x">>], [st |-> 2, sp |-> <<"y", " ", "x">>]>>

----------------------------------------------------------------------------
(* Claim about map_df, checked under SpecMap *)

MapDone == mapOut # NoMapOut

SameNames == ToSet(fun.args) = ToSet(df.cols)

\* fun called on row i, and whether that call raises.
OnRow(i) == Apply(fun, RowArgs(df, i))
RaisesOn(i) == OnRow(i).kind # "ok"

MismatchCase ==
  ~SameNames =>
    /\ mapOut = [kind |-> "str", msg |-> "NOT match col names and fun arguments!",
                 list |-> << >>]
    /\ mapCalls = 0

RaiseCase ==
  (SameNames /\ \E i \in 1..Len(df.rows) : RaisesOn(i)) =>
    /\ mapOut.kind = "str" /\ mapOut.list = << >>
    /\ \E i \in 1..Len(df.rows) : RaisesOn(i) /\ mapOut.msg = OnRow(i).kind

ListResult ==
  /\ mapOut.kind = "list"
  /\ Len(mapOut.list) = Len(df.rows)
  /\ \A i \in 1..Len(df.rows) : mapOut.list[i] = OnRow(i).val

\* C9 (as claimed): a mismatch of the name sets gives the mismatch message
\* with fun never called; equal sets and a raising row give the exception's
\* message and no list; every other call gives the list of the results, one
\* per row in row order.
C9_MapDfAsClaimed ==
  MapDone =>
    /\ MismatchCase
    /\ RaiseCase
    /\ (SameNames /\ \A i \in 1..Len(df.rows) : ~RaisesOn(i)) => ListResult

\* C9 (amended): as claimed when the table has a column; for a table without
\* columns and a fun without arguments the result is the message of map's
\* own TypeError, fun never called.
C9_MapDfAmended ==
  MapDone =>
    /\ MismatchCase
    /\ RaiseCase
    /\ (SameNames /\ df.cols # << >> /\ \A i \in 1..Len(df.rows) : ~RaisesOn(i))
         => ListResult
    /\ (SameNames /\ df.cols = << >>) =>
         /\ mapOut = [kind |-> "str", msg |-> "map() must have at least two arguments.",
                      list |-> << >>]
         /\ mapCalls = 0

C9_Witness ==
  /\ MapDone
  /\ df = [cols |-> <<"y", "x">>, rows |-> <<[x |-> 1, y |-> 2], [x |-> 0, y |-> 1]>>]
  /\ fun = [args |-> <<"x", "y">>, body |-> "pair"]
  /\ mapOut = [kind |-> "list", msg |-> "", list |-> <<21, 10>>]
  /\ mapCalls = 2

----------------------------------------------------------------------------
(* Specifications *)

InitBB == BBStart /\ AggIdle /\ PrepIdle /\ MapIdle

InitAgg == AggStart /\ BBIdle /\ PrepIdle /\ MapIdle

InitCover == ((BBStart /\ AggIdle) \/ (AggStart /\ BBIdle)) /\ PrepIdle /\ MapIdle

InitPrep == PrepStart /\ BBIdle /\ AggIdle /\ MapIdle

InitMap == MapStart /\ BBIdle /\ AggIdle /\ PrepIdle

\* A call of bb2percent.
SpecBB == InitBB /\ [][NextBB]_vars

\* Calls of aggregate_cover on one table.
SpecAgg == InitAgg /\ [][NextAgg]_vars

\* Either of the two.
SpecCover == InitCover /\ [][NextBB \/ NextAgg]_vars

\* A call of prep_sp2vec.
SpecPrep == InitPrep /\ [][NextPrep]_vars

\* A call of map_df.
SpecMap == InitMap /\ [][NextMap]_vars

====
